---------------------------- MODULE Spec2Model ----------------------------
(***************************************************************************)
(* A model of adabot's circuitpython.org libraries updater:                *)
(*   - github_requests.py: the request client, whose get() pauses the      *)
(*     caller when GitHub reports an exhausted rate limit;                 *)
(*   - update_cp_org_libraries.py: the per-repository queries, the         *)
(*     aggregation loop of __main__, the sorting of the report and the     *)
(*     publish protocol of update_json_file.                               *)
(*                                                                         *)
(* Strings whose case or order the code looks at (repository names, error  *)
(* kinds, review states) are sequences of ASCII codes, so that str.lower   *)
(* and Python's string comparison are computed, not assumed.               *)
(* Python dicts are sequences of <<key, value>> pairs in insertion order,  *)
(* which is the order json.dumps emits.                                    *)
(***************************************************************************)
EXTENDS Integers, Sequences, FiniteSets, TLC

VARIABLES
    \* ---- github_requests.get and its caller
    now,                \* the clock, in epoch seconds
    tz,                 \* the local zone's offset from UTC, in seconds
    travis,             \* "TRAVIS" in os.environ
    cpc,                \* where the calling thread is
    response,           \* get()'s local `response` (its headers)
    rate_limit_reset,   \* get()'s local `rate_limit_reset` (local time)
    calls,              \* requests issued so far
    events,             \* history: the requests issued, each with its time
    returns,            \* history: the responses get() returned, each with its time
    \* ---- update_json_file
    ppc,                \* where update_json_file is
    json_string,        \* its argument
    commit_date,        \* datetime.date.today()
    commit_sha,
    blob_sha,
    requests,           \* history: the requests update_json_file issued
    fatal,              \* the RuntimeError raised, or "none"
    \* ---- __main__ aggregation and serialization
    repos,              \* common_funcs.list_repos()
    idx,                \* position of the for loop in repos
    apc,                \* where the loop body is
    new_libs,
    updated_libs,
    open_issues_by_repo,
    open_prs_by_repo,
    contributors,
    reviewers,
    merged_pr_count_total,
    repos_by_error,
    output_file_data,   \* validator.output_file_data
    world,              \* history: what each collaborator answered, per repository
    oplog,              \* history: the collaborator calls made, in order
    build_json,         \* the Report Document, once assembled
    run_time,           \* line 182: the local wall clock read before the loop
    \* ---- get_contributors on its own
    gpc,
    pulls_result,       \* the closed-pulls response given to get_contributors
    micro,              \* the microseconds of the clock when get_contributors reads it
    contrib_out         \* what get_contributors returned

clientVars == <<now, tz, travis, cpc, response, rate_limit_reset, calls, events, returns>>
publishVars == <<ppc, json_string, commit_date, commit_sha, blob_sha, requests, fatal>>
aggVars == <<repos, idx, apc, new_libs, updated_libs, open_issues_by_repo,
             open_prs_by_repo, contributors, reviewers, merged_pr_count_total,
             repos_by_error, output_file_data, world, oplog, build_json, run_time>>
contribVars == <<gpc, pulls_result, micro, contrib_out>>
vars == <<clientVars, publishVars, aggVars, contribVars>>

Null == "None"

(***************************************************************************)
(* Bounds of the model.                                                    *)
(***************************************************************************)
MaxCalls == 2       \* requests the caller issues in one behaviour
MaxDelay == 1       \* seconds that may pass between two statements
MaxRepos == 2       \* length of the repository list
MaxPage == 2        \* pull requests in one closed-pulls page

(***************************************************************************)
(* Strings as sequences of ASCII codes.                                    *)
(***************************************************************************)
LowerChar(c) == IF c >= 65 /\ c <= 90 THEN c + 32 ELSE c

\* str.lower
Lower(s) == [i \in DOMAIN s |-> LowerChar(s[i])]

RECURSIVE StrLess(_, _)
\* Python's s < t on strings
StrLess(s, t) ==
    IF t = <<>> THEN FALSE
    ELSE IF s = <<>> THEN TRUE
    ELSE IF s[1] # t[1] THEN s[1] < t[1]
    ELSE StrLess(Tail(s), Tail(t))

(***************************************************************************)
(* The idle values of each component, for the specifications that do not   *)
(* run it.                                                                 *)
(***************************************************************************)
NoHeaders == [has_remaining |-> FALSE, remaining |-> 0, has_reset |-> FALSE, reset |-> 0]

\* The local zones of the runs: west of, at and east of UTC
TimeZones == {-18000, 0, 3600}

\* The local zones of the aggregation runs
AggZones == TimeZones \ {0}

\* No request in progress
ClientQuiet ==
    /\ now = 1000000 /\ travis = FALSE /\ cpc = "off"
    /\ response = NoHeaders /\ rate_limit_reset = 0
    /\ calls = 0 /\ events = <<>> /\ returns = <<>>

ClientIdle == ClientQuiet /\ tz = 0

PublishIdle ==
    /\ ppc = "off" /\ json_string = Null /\ commit_date = Null
    /\ commit_sha = Null /\ blob_sha = Null /\ requests = <<>> /\ fatal = "none"

AggIdle ==
    /\ repos = <<>> /\ idx = 1 /\ apc = "off"
    /\ new_libs = <<>> /\ updated_libs = <<>>
    /\ open_issues_by_repo = <<>> /\ open_prs_by_repo = <<>>
    /\ contributors = <<>> /\ reviewers = <<>> /\ merged_pr_count_total = 0
    /\ repos_by_error = <<>> /\ output_file_data = <<>>
    /\ world = <<>> /\ oplog = <<>> /\ build_json = Null /\ run_time = 0

ContribIdle ==
    /\ gpc = "off" /\ pulls_result = Null /\ micro = 0 /\ contrib_out = Null

(***************************************************************************)
(* github_requests.py                                                      *)
(***************************************************************************)
Verbs == {"GET", "POST", "PUT", "PATCH", "DELETE"}

SleepTravisSeconds == 300
SecondsPerDay == 86400

\* datetime.datetime.utcfromtimestamp(ts), which ignores the zone
utcfromtimestamp(ts) == ts

\* datetime.datetime.fromtimestamp(ts): the local time of an epoch time
fromtimestamp(ts) == ts + tz

\* datetime.datetime.now() when the clock reads t
datetime_now(t) == t + tz

\* timedelta.seconds: the seconds field of the normalised (days, seconds) pair,
\* always in 0 .. 86399, also for a negative difference
timedelta_seconds(d) == d % SecondsPerDay

SleepNoExtraSecond(reset, local_now) == timedelta_seconds(reset - local_now)

\* line 73-76: the argument of time.sleep outside Travis
SleepArgument(reset, local_now) == timedelta_seconds(reset - local_now) + 1

\* The offsets, from the time of the request, of the reset times GitHub may send:
\* passed, now, within one sleep, and after one 5-minute sleep or (outside
\* Travis, where one sleep covers up to a day) after a day or more
ResetOffsets ==
    {-1, 0, 1, SleepTravisSeconds, SleepTravisSeconds + 1}
    \cup (IF travis THEN {} ELSE {SecondsPerDay, SecondsPerDay + 1})

\* The rate-limit headers a response may carry when the request is sent at t
ResponseHeaders(t) ==
    {NoHeaders}
    \cup {[has_remaining |-> TRUE, remaining |-> r, has_reset |-> TRUE, reset |-> t + o] :
            r \in {0, 1}, o \in ResetOffsets}
    \cup {[has_remaining |-> TRUE, remaining |-> r, has_reset |-> FALSE, reset |-> 0] :
            r \in {1}}
    \cup {[has_remaining |-> TRUE, remaining |-> r, has_reset |-> TRUE,
           reset |-> t + SleepTravisSeconds] : r \in {2, 100}}

Limited(h) == h.has_remaining /\ h.remaining <= 1

\* A request issued at t, with the rate-limit headers of its response
Event(verb, t, h) == [verb |-> verb, at |-> t, headers |-> h]

ClientOnly == UNCHANGED <<publishVars, aggVars, contribVars>>

\* get() returns `response` to its caller
Return ==
    /\ cpc' = "idle"
    /\ returns' = Append(returns, [headers |-> response, at |-> now'])

\* line 60: requests.get(...); the response arrives after some latency
GetSend ==
    /\ cpc = "idle"
    /\ calls < MaxCalls
    /\ \E h \in ResponseHeaders(now), d \in 0..MaxDelay :
          /\ events' = Append(events, Event("GET", now, h))
          /\ response' = h
          /\ now' = now + d
    /\ calls' = calls + 1
    /\ cpc' = "headers"
    /\ UNCHANGED <<tz, travis, rate_limit_reset, returns>>
    /\ ClientOnly

\* line 61 false: no X-RateLimit-Remaining header
GetNoHeader ==
    /\ cpc = "headers"
    /\ ~response.has_remaining
    /\ UNCHANGED <<now, tz, travis, response, rate_limit_reset, calls, events>>
    /\ Return
    /\ ClientOnly

\* lines 62-63 false, 77-79: remaining > 1
GetRemaining ==
    /\ cpc = "headers"
    /\ response.has_remaining /\ response.remaining > 1
    /\ UNCHANGED <<now, tz, travis, response, rate_limit_reset, calls, events>>
    /\ Return
    /\ ClientOnly

\* lines 63-65: remaining <= 1, the reset time is read
GetLimitReached ==
    /\ cpc = "headers"
    /\ Limited(response) /\ response.has_reset
    /\ rate_limit_reset' = fromtimestamp(response.reset)
    /\ cpc' = "while"
    /\ UNCHANGED <<now, tz, travis, response, calls, events, returns>>
    /\ ClientOnly

\* line 64 with no X-RateLimit-Reset header: KeyError, which no caller catches
GetMissingReset ==
    /\ cpc = "headers"
    /\ Limited(response) /\ ~response.has_reset
    /\ cpc' = "raised"
    /\ UNCHANGED <<now, tz, travis, response, rate_limit_reset, calls, events, returns>>
    /\ ClientOnly

\* line 66 true: the reset time is still ahead
WhileEnter ==
    /\ cpc = "while"
    /\ \E d \in 0..MaxDelay :
          /\ now' = now + d
          /\ datetime_now(now') < rate_limit_reset
    /\ cpc' = "body"
    /\ UNCHANGED <<tz, travis, response, rate_limit_reset, calls, events, returns>>
    /\ ClientOnly

\* line 66 false, 77-79: the reset time has come
WhileExit ==
    /\ cpc = "while"
    /\ \E d \in 0..MaxDelay :
          /\ now' = now + d
          /\ ~(datetime_now(now') < rate_limit_reset)
    /\ Return
    /\ UNCHANGED <<tz, travis, response, rate_limit_reset, calls, events>>
    /\ ClientOnly

\* lines 68-71: time.sleep(300), which may oversleep
SleepTravis ==
    /\ cpc = "body"
    /\ travis
    /\ \E late \in 0..MaxDelay : now' = now + SleepTravisSeconds + late
    /\ cpc' = "while"
    /\ UNCHANGED <<tz, travis, response, rate_limit_reset, calls, events, returns>>
    /\ ClientOnly

\* lines 72-76: the clock is read again, then time.sleep(reset_diff.seconds + 1)
SleepExact ==
    /\ cpc = "body"
    /\ ~travis
    /\ \E d \in 0..MaxDelay, late \in 0..MaxDelay :
          now' = now + d + SleepArgument(rate_limit_reset, datetime_now(now + d)) + late
    /\ cpc' = "while"
    /\ UNCHANGED <<tz, travis, response, rate_limit_reset, calls, events, returns>>
    /\ ClientOnly

\* lines 81-91: post, put, patch, delete send the request and return the response
OtherVerb ==
    /\ cpc = "idle"
    /\ calls < MaxCalls
    /\ \E v \in Verbs \ {"GET"}, d \in 0..MaxDelay :
          /\ events' = Append(events, Event(v, now, NoHeaders))
          /\ now' = now + d
    /\ calls' = calls + 1
    /\ UNCHANGED <<tz, travis, cpc, response, rate_limit_reset, returns>>
    /\ ClientOnly

InitClient ==
    /\ now = 1000000
    /\ tz \in TimeZones
    /\ travis \in BOOLEAN
    /\ cpc = "idle"
    /\ response = NoHeaders /\ rate_limit_reset = 0
    /\ calls = 0 /\ events = <<>> /\ returns = <<>>
    /\ PublishIdle /\ AggIdle /\ ContribIdle

GetStep ==
    \/ GetNoHeader
    \/ GetRemaining
    \/ GetLimitReached
    \/ GetMissingReset
    \/ WhileEnter
    \/ WhileExit
    \/ SleepTravis
    \/ SleepExact

NextClient ==
    \/ GetSend
    \/ OtherVerb
    \/ GetStep

\* get() runs on: the interpreter executes the next statement and a sleep ends
SpecClient == InitClient /\ [][NextClient]_vars /\ WF_vars(GetStep)

(***************************************************************************)
(* update_cp_org_libraries.py: update_json_file                            *)
(***************************************************************************)
master_url == "/repos/adafruit/circuitpython-org/"
fork_url == "/repos/adafruit-adabot/circuitpython-org/"

\* line 120: "libraries_update_" + commit_date.strftime("%d-%b-%y")
branch_name == <<"libraries_update_", commit_date>>

\* line 148
commit_msg == <<"Automated Libraries update for ", commit_date>>

\* lines 149, 152: base64 of the UTF-8 bytes of the document and a newline
EncodedContent(doc) == <<"base64", <<"utf-8", doc>>, "\n">>

Documents == {"{}", "{report}"}
Dates == {"29-Oct-26", "30-Oct-26"}
Shas == {"sha_1", "sha_2"}

\* What GitHub may answer to a read of a SHA
ShaResponses == {[ok |-> FALSE, sha |-> Null]} \cup {[ok |-> TRUE, sha |-> h] : h \in Shas}

\* What GitHub may answer to the branch creation: created; refused with a JSON
\* body and its message; refused with a body that is no JSON
BranchResponses ==
    { [ok |-> TRUE, is_json |-> TRUE, message |-> Null],
      [ok |-> FALSE, is_json |-> TRUE, message |-> "Reference already exists"],
      [ok |-> FALSE, is_json |-> TRUE, message |-> "Not Found"],
      [ok |-> FALSE, is_json |-> FALSE, message |-> Null] }

WriteResponses == {[ok |-> TRUE], [ok |-> FALSE]}

PublishOnly == UNCHANGED <<clientVars, aggVars, contribVars>>

\* A request update_json_file issued, with the answer it got
Request(step, verb, url, body, resp) ==
    [step |-> step, verb |-> verb, url |-> url, body |-> body, ok |-> resp.ok,
     message |-> IF "message" \in DOMAIN resp /\ resp.is_json THEN resp.message ELSE Null]

NeverFails(resp) == FALSE

\* lines 123, 132, 158, 171: `if not response.ok`
NotOk(resp) == ~resp.ok

AnyBranchFailureFatal(resp) == ~resp.ok

\* line 143: `not response.ok and response.json()["message"] != "Reference already
\* exists"`; response.json() raises on a body that is no JSON
BranchFailureFatal(resp) ==
    ~resp.ok /\ (~resp.is_json \/ resp.message # "Reference already exists")

\* lines 122-127: read the master ref
ReadMasterSha ==
    /\ ppc = "master_sha"
    /\ \E resp \in ShaResponses :
          /\ requests' = Append(requests,
                Request(1, "GET", <<master_url, "git/refs/heads/master">>, Null, resp))
          /\ IF NotOk(resp)
             THEN /\ fatal' = "Failed to retrieve master sha"
                  /\ ppc' = "failed"
                  /\ UNCHANGED commit_sha
             ELSE /\ commit_sha' = resp.sha
                  /\ ppc' = "blob_sha"
                  /\ UNCHANGED fatal
    /\ UNCHANGED <<json_string, commit_date, blob_sha>>
    /\ PublishOnly

\* lines 129-136: read the blob SHA of libraries.json at that commit
ReadBlobSha ==
    /\ ppc = "blob_sha"
    /\ \E resp \in ShaResponses :
          /\ requests' = Append(requests,
                Request(2, "GET",
                        <<master_url, "contents/_data/libraries.json?ref=", commit_sha>>,
                        Null, resp))
          /\ IF NotOk(resp)
             THEN /\ fatal' = "Failed to retrieve libraries.json sha"
                  /\ ppc' = "failed"
                  /\ UNCHANGED blob_sha
             ELSE /\ blob_sha' = resp.sha
                  /\ ppc' = "branch"
                  /\ UNCHANGED fatal
    /\ UNCHANGED <<json_string, commit_date, commit_sha>>
    /\ PublishOnly

\* lines 138-146: create the branch on the fork
CreateBranch ==
    /\ ppc = "branch"
    /\ \E resp \in BranchResponses :
          /\ requests' = Append(requests,
                Request(3, "POST", <<fork_url, "git/refs">>,
                        [ref |-> <<"refs/heads/", branch_name>>, sha |-> commit_sha],
                        resp))
          /\ IF BranchFailureFatal(resp)
             THEN /\ fatal' = IF resp.is_json THEN "Failed to create branch"
                                              ELSE "JSONDecodeError"
                  /\ ppc' = "failed"
             ELSE /\ ppc' = "content"
                  /\ UNCHANGED fatal
    /\ UNCHANGED <<json_string, commit_date, commit_sha, blob_sha>>
    /\ PublishOnly

\* lines 148-161: update the file on the branch
UpdateContent ==
    /\ ppc = "content"
    /\ \E resp \in WriteResponses :
          /\ requests' = Append(requests,
                Request(4, "PUT", <<fork_url, "contents/_data/libraries.json">>,
                        [message |-> commit_msg, content |-> EncodedContent(json_string),
                         sha |-> blob_sha, branch |-> branch_name],
                        resp))
          /\ IF NotOk(resp)
             THEN /\ fatal' = "Failed to update libraries.json"
                  /\ ppc' = "failed"
             ELSE /\ ppc' = "pull"
                  /\ UNCHANGED fatal
    /\ UNCHANGED <<json_string, commit_date, commit_sha, blob_sha>>
    /\ PublishOnly

\* lines 163-174: open the pull request
OpenPullRequest ==
    /\ ppc = "pull"
    /\ \E resp \in WriteResponses :
          /\ requests' = Append(requests,
                Request(5, "POST", <<master_url, "pulls">>,
                        [title |-> commit_msg, head |-> <<"adafruit-adabot:", branch_name>>,
                         base |-> "master", body |-> commit_msg,
                         maintainer_can_modify |-> TRUE],
                        resp))
          /\ IF NotOk(resp)
             THEN /\ fatal' = "Failed to create pull request"
                  /\ ppc' = "failed"
             ELSE /\ ppc' = "done"
                  /\ UNCHANGED fatal
    /\ UNCHANGED <<json_string, commit_date, commit_sha, blob_sha>>
    /\ PublishOnly

InitPublish ==
    /\ ppc = "master_sha"
    /\ json_string \in Documents
    /\ commit_date \in Dates
    /\ commit_sha = Null /\ blob_sha = Null
    /\ requests = <<>> /\ fatal = "none"
    /\ ClientIdle /\ AggIdle /\ ContribIdle

NextPublish ==
    \/ ReadMasterSha
    \/ ReadBlobSha
    \/ CreateBranch
    \/ UpdateContent
    \/ OpenPullRequest

SpecPublish == InitPublish /\ [][NextPublish]_vars

(***************************************************************************)
(* Python values                                                           *)
(***************************************************************************)
Range(s) == {s[i] : i \in DOMAIN s}

\* key in d
HasKey(d, k) == \E i \in DOMAIN d : d[i][1] = k

\* d[k]
Get(d, k) == d[CHOOSE i \in DOMAIN d : d[i][1] = k][2]

\* d[k] = v: a new key goes last, a present key keeps its place
Put(d, k, v) ==
    IF HasKey(d, k)
    THEN [i \in DOMAIN d |-> IF d[i][1] = k THEN <<k, v>> ELSE d[i]]
    ELSE Append(d, <<k, v>>)

\* list(d): the keys in insertion order
Keys(d) == [i \in DOMAIN d |-> d[i][1]]

Identity(s) == s

\* lines 290-306: key=str.lower
SortKey(s) == Lower(s)

Unsorted(keys) == keys

\* sorted(keys, key=str.lower), which is stable: an element comes after those of
\* smaller key and after the earlier ones of equal key
sorted(keys) ==
    LET Before(i, j) == \/ StrLess(SortKey(keys[i]), SortKey(keys[j]))
                        \/ (SortKey(keys[i]) = SortKey(keys[j]) /\ i < j)
        Place(j) == 1 + Cardinality({i \in DOMAIN keys : Before(i, j)})
    IN [p \in DOMAIN keys |-> keys[CHOOSE j \in DOMAIN keys : Place(j) = p]]

\* lines 289-307: the dict rebuilt in the order of its sorted keys
SortedDict(d) == LET ks == sorted(Keys(d)) IN [i \in DOMAIN ks |-> <<ks[i], Get(d, ks[i])>>]

(***************************************************************************)
(* The collaborators of the aggregation loop                               *)
(***************************************************************************)
Circuitpython == <<99, 105, 114, 99, 117, 105, 116, 112, 121, 116, 104, 111, 110>>

\* cpy_vals.BUNDLE_IGNORE_LIST, here of one name, "x"
BUNDLE_IGNORE_LIST == {<<120>>}

\* cpy_vals.ERROR_OUTPUT_HANDLER, here "A"
ERROR_OUTPUT_HANDLER == <<65>>

\* The repository names of the model: "a", "B", the ignored "x", "circuitpython"
RepoNames == {<<97>>, <<66>>} \cup BUNDLE_IGNORE_LIST \cup {Circuitpython}

Repo(name) == [name |-> name, html_url |-> <<"https://github.com/adafruit/", name>>]

\* The repository lists: no repository twice
RepoLists ==
    UNION {{l \in [1..n -> RepoNames] : \A i, j \in 1..n : i # j => l[i] # l[j]} :
             n \in 0..MaxRepos}

\* common_funcs.is_new_or_updated
ReleaseChecks == {"new", "updated", "no"}

Issue(repo, n, is_pr) ==
    [html_url |-> <<repo.html_url, IF is_pr THEN "/pull/" ELSE "/issues/", n>>,
     title |-> <<"title", n>>, pull_request |-> is_pr]

\* What the issues endpoint may answer for a repository
IssueResponses(repo) ==
    { [ok |-> FALSE, json |-> <<>>],
      [ok |-> TRUE, json |-> <<Issue(repo, 1, FALSE)>>],
      [ok |-> TRUE, json |-> <<Issue(repo, 2, TRUE), Issue(repo, 1, FALSE),
                               Issue(repo, 3, FALSE)>>] }

SecondsPerWeek == 7 * SecondsPerDay

APPROVED == <<65, 80, 80, 82, 79, 86, 69, 68>>
COMMENTED == <<67, 79, 77, 77, 69, 78, 84, 69, 68>>
approved == <<97, 112, 112, 114, 111, 118, 101, 100>>

\* JSON null
JsonNull == <<>>

\* The merged_at of a closed pull request when the clock reads t: whether the key
\* is there, and its value: null, or a UTC timestamp (a one-element sequence)
\* a second before and at 7 days before t, the same 7 days before the local
\* wall clock's reading, and a day before t
MergedAts(t) ==
    {[present |-> FALSE, value |-> JsonNull]}
    \cup {[present |-> TRUE, value |-> v] :
            v \in {JsonNull, <<t - SecondsPerWeek - 1>>, <<t - SecondsPerWeek>>,
                   <<t + tz - SecondsPerWeek - 1>>, <<t + tz - SecondsPerWeek>>,
                   <<t - SecondsPerDay>>}}

DetailResponses == {[ok |-> FALSE, merged_by |-> Null], [ok |-> TRUE, merged_by |-> "merger"]}

ReviewResponses ==
    { [ok |-> FALSE, json |-> <<>>],
      [ok |-> TRUE, json |-> <<>>],
      [ok |-> TRUE, json |-> <<[state |-> APPROVED, user |-> "reviewer_1"]>>],
      [ok |-> TRUE, json |-> <<[state |-> COMMENTED, user |-> "reviewer_2"],
                                [state |-> APPROVED, user |-> "reviewer_1"]>>] }

\* A closed pull request of a page, with what its detail and reviews endpoints answer
PullKinds(t) ==
    [merged_at : MergedAts(t), detail : DetailResponses, reviews : ReviewResponses]

\* The page: the n-th pull request has its own url and author, and its detail
\* carries the same url
Page(kinds) ==
    [i \in DOMAIN kinds |->
        [url |-> <<"pulls/", i>>, user |-> <<"author_", i>>,
         merged_at |-> kinds[i].merged_at,
         detail |-> [ok |-> kinds[i].detail.ok, merged_by |-> kinds[i].detail.merged_by,
                     url |-> <<"pulls/", i>>],
         reviews |-> kinds[i].reviews]]

\* What the closed-pulls endpoint may answer
PullsResponses(t) ==
    {[ok |-> FALSE, json |-> <<>>]}
    \cup {[ok |-> TRUE, json |-> Page(k)] :
            k \in UNION {[1..n -> PullKinds(t)] : n \in 0..MaxPage}}

\* The time a repository's requests may take before get_contributors reads the
\* clock: none, or a minute (a rate-limit pause included)
Elapsed == {0, 60}

\* The closed-pulls answers of the aggregation runs, t being the clock at the
\* start of the run: a page of one pull request merged a day before t, with each
\* way the three requests may fail, or merged half a minute after the instant
\* the local wall clock less 7 days showed at t
AggPullsResponses(t) ==
    LET merged == [present |-> TRUE, value |-> <<t - SecondsPerDay>>]
        at_the_edge == [present |-> TRUE, value |-> <<t + tz - SecondsPerWeek + 30>>]
        detail_ok == [ok |-> TRUE, merged_by |-> "merger"]
        detail_failed == [ok |-> FALSE, merged_by |-> Null]
        reviews_ok == [ok |-> TRUE, json |-> <<[state |-> APPROVED, user |-> "reviewer_1"]>>]
        reviews_failed == [ok |-> FALSE, json |-> <<>>]
        One(when, detail, reviews) ==
            [ok |-> TRUE,
             json |-> Page(<<[merged_at |-> when, detail |-> detail, reviews |-> reviews]>>)]
    IN {[ok |-> FALSE, json |-> <<>>],
        One(merged, detail_failed, reviews_failed),
        One(merged, detail_ok, reviews_failed),
        One(at_the_edge, detail_ok, reviews_ok)}

Plain(kind) == [is_tuple |-> FALSE, kind |-> kind, days |-> 0]
Pair(kind, days) == [is_tuple |-> TRUE, kind |-> kind, days |-> days]

\* What validator.run_repo_validation may return: error kinds "R", "m", "M" and
\* the sentinel, plain or paired with a number of days
ValidationResults ==
    { <<>>,
      <<Plain(<<82>>)>>,
      <<Pair(<<109>>, 5)>>,
      <<Plain(<<77>>), Pair(<<82>>, 3)>>,
      <<Plain(ERROR_OUTPUT_HANDLER)>> }

(***************************************************************************)
(* update_cp_org_libraries.py: the queries                                 *)
(***************************************************************************)
ReturnsNothing == <<>>

\* line 58: `return [], []`
FailedIssuesResult == <<<<>>, <<>>>>

\* lines 49-67
get_open_issues_and_prs(result) ==
    IF ~result.ok THEN FailedIssuesResult
    ELSE LET issues == result.json
             Entry(issue) == <<<<issue.html_url, issue.title>>>>
             Entries(sel) == [i \in DOMAIN sel |-> Entry(sel[i])]
             IsIssue(issue) == ~issue.pull_request
             IsPull(issue) == issue.pull_request
         IN <<Entries(SelectSeq(issues, IsIssue)), Entries(SelectSeq(issues, IsPull))>>

\* A naive datetime: the seconds of its wall-clock reading and its microseconds.
\* datetime.datetime.strptime(s, "%Y-%m-%dT%H:%M:%SZ") reads the digits as they
\* stand (a UTC reading) and has no microseconds
strptime(s) == [seconds |-> s[1], microsecond |-> 0]

\* line 77: datetime.datetime.today() when the clock reads t: the local wall clock
datetime_today(t) == [seconds |-> t + tz, microsecond |-> micro]

\* line 77: `- datetime.timedelta(days=7)`
minus_seven_days(d) == [d EXCEPT !.seconds = @ - SecondsPerWeek]

\* line 88: `merged_at < today_minus_seven`, the order of naive datetimes
TooOld(merged_at, today_minus_seven) ==
    \/ merged_at.seconds < today_minus_seven.seconds
    \/ /\ merged_at.seconds = today_minus_seven.seconds
       /\ merged_at.microsecond < today_minus_seven.microsecond

\* lines 102-104: the logins of the approving reviews
Approvers(reviews) ==
    LET IsApproved(review) == Lower(review.state) = approved
        sel == SelectSeq(reviews, IsApproved)
    IN [i \in DOMAIN sel |-> sel[i].user]

RECURSIVE ScanPulls(_, _, _, _)
\* lines 79-104: the loop over the page, from its i-th pull request
ScanPulls(prs, i, out, today_minus_seven) ==
    IF i > Len(prs) THEN out
    ELSE
      LET pr == prs[i]
          Continue(o) == ScanPulls(prs, i + 1, o, today_minus_seven)
      IN IF ~pr.merged_at.present THEN Continue(out)
         ELSE IF pr.merged_at.value = JsonNull THEN Continue(out)
         ELSE IF TooOld(strptime(pr.merged_at.value), today_minus_seven) THEN Continue(out)
         ELSE
           LET kept == [out EXCEPT !.contributors = Append(@, pr.user),
                                   !.merged_pr_count = @ + 1,
                                   !.requests = Append(@, <<"GET", pr.url>>)]
           IN IF ~pr.detail.ok THEN Continue(kept)
              ELSE
                LET merged == [kept EXCEPT
                                  !.reviewers = Append(@, pr.detail.merged_by),
                                  !.requests = Append(@, <<"GET", pr.detail.url, "/reviews">>)]
                IN IF ~pr.reviews.ok THEN Continue(merged)
                   ELSE Continue([merged EXCEPT
                                     !.reviewers = @ \o Approvers(pr.reviews.json)])

\* lines 69-106, when the clock reads t
get_contributors(result, t) ==
    LET none == [contributors |-> <<>>, reviewers |-> <<>>, merged_pr_count |-> 0,
                 requests |-> <<>>]
    IN IF result.ok
       THEN ScanPulls(result.json, 1, none, minus_seven_days(datetime_today(t)))
       ELSE none

ContribOnly == UNCHANGED <<clientVars, publishVars, aggVars>>

\* get_contributors called on a closed-pulls response
GetContributors ==
    /\ gpc = "call"
    /\ contrib_out' = get_contributors(pulls_result, now)
    /\ gpc' = "returned"
    /\ UNCHANGED <<pulls_result, micro>>
    /\ ContribOnly

InitContrib ==
    /\ ClientQuiet /\ PublishIdle /\ AggIdle
    /\ tz \in TimeZones
    /\ micro \in {0, 500000}
    /\ gpc = "call"
    /\ pulls_result \in PullsResponses(now)
    /\ contrib_out = Null

NextContrib == GetContributors

SpecContrib == InitContrib /\ [][NextContrib]_vars

(***************************************************************************)
(* update_cp_org_libraries.py: __main__, the aggregation loop              *)
(***************************************************************************)
IgnoreListOnly(name) == name \in BUNDLE_IGNORE_LIST

\* lines 242-243: the repositories the loop skips
Skipped(name) == name \in BUNDLE_IGNORE_LIST \/ name = Circuitpython

\* The accumulators of the loop
Acc ==
    [new_libs |-> new_libs, updated_libs |-> updated_libs,
     open_issues_by_repo |-> open_issues_by_repo, open_prs_by_repo |-> open_prs_by_repo,
     contributors |-> contributors, reviewers |-> reviewers,
     merged_pr_count_total |-> merged_pr_count_total, repos_by_error |-> repos_by_error]

\* lines 221-228
EmptyAcc ==
    [new_libs |-> <<>>, updated_libs |-> <<>>,
     open_issues_by_repo |-> <<>>, open_prs_by_repo |-> <<>>,
     contributors |-> <<>>, reviewers |-> <<>>,
     merged_pr_count_total |-> 0, repos_by_error |-> <<>>]

SetAcc(acc) ==
    /\ new_libs' = acc.new_libs
    /\ updated_libs' = acc.updated_libs
    /\ open_issues_by_repo' = acc.open_issues_by_repo
    /\ open_prs_by_repo' = acc.open_prs_by_repo
    /\ contributors' = acc.contributors
    /\ reviewers' = acc.reviewers
    /\ merged_pr_count_total' = acc.merged_pr_count_total
    /\ repos_by_error' = acc.repos_by_error

\* lines 248-252
AfterReleaseCheck(acc, repo, check_releases) ==
    IF check_releases = "new"
    THEN [acc EXCEPT !.new_libs = Put(@, repo.name, repo.html_url)]
    ELSE IF check_releases = "updated"
    THEN [acc EXCEPT !.updated_libs = Put(@, repo.name, repo.html_url)]
    ELSE acc

\* lines 255-259, once the returned pair is unpacked
AfterIssues(acc, repo, ret) ==
    LET check_issues == ret[1]
        check_prs == ret[2]
    IN [acc EXCEPT
          !.open_issues_by_repo = IF check_issues # <<>> THEN Put(@, repo.name, check_issues)
                                                        ELSE @,
          !.open_prs_by_repo = IF check_prs # <<>> THEN Put(@, repo.name, check_prs) ELSE @]

\* lines 262-267
AfterContributors(acc, out) ==
    [acc EXCEPT !.contributors = @ \o out.contributors,
                !.reviewers = @ \o out.reviewers,
                !.merged_pr_count_total = @ + out.merged_pr_count]

BareUrl(error, repo) == repo.html_url

\* lines 280, 284-286: the element a signal adds: the URL, or
\* "{0} ({1} days)".format(url, days)
LedgerEntry(error, repo) ==
    IF error.is_tuple THEN <<repo.html_url, " (", error.days, " days)">>
    ELSE repo.html_url

\* lines 272-286: one error signal
RecordError(ledger, error, repo) ==
    LET listed == IF HasKey(ledger, error.kind) THEN ledger ELSE Put(ledger, error.kind, <<>>)
    IN Put(listed, error.kind, Append(Get(listed, error.kind), LedgerEntry(error, repo)))

RECURSIVE HandleErrors(_, _, _)
\* lines 271-286: `for error in errors`
HandleErrors(ledger, errors, repo) ==
    IF errors = <<>> THEN ledger
    ELSE HandleErrors(RecordError(ledger, Head(errors), repo), Tail(errors), repo)

AfterValidation(acc, repo, errors) ==
    [acc EXCEPT !.repos_by_error = HandleErrors(@, errors, repo)]

\* validator.output_file_data after run_repo_validation: the validator buffers a
\* diagnostic when it reports ERROR_OUTPUT_HANDLER
Buffered(buffer, errors) ==
    IF \E i \in DOMAIN errors : errors[i] = Plain(ERROR_OUTPUT_HANDLER)
    THEN Append(buffer, "diagnostic") ELSE buffer

\* lines 274-277: the buffer is printed and cleared
Flushed(buffer, errors) ==
    IF \E i \in DOMAIN errors : ~errors[i].is_tuple /\ errors[i].kind = ERROR_OUTPUT_HANDLER
    THEN <<>> ELSE buffer

\* The orders in which iterating a set may yield its elements
Orderings(S) ==
    {f \in [1..Cardinality(S) -> S] : \A i, j \in DOMAIN f : i # j => f[i] # f[j]}

\* lines 288-319: build_json of a run started at the local time `started`, the
\* listed logins in the given orders
Document(acc, contribs, revs, started) ==
    [updated_at |-> <<"%Y-%m-%dT%H:%M:%SZ", started>>,
     contributors |-> contribs,
     reviewers |-> revs,
     merged_pr_count |-> <<"str", acc.merged_pr_count_total>>,
     library_updates |-> [new |-> SortedDict(acc.new_libs),
                          updated |-> SortedDict(acc.updated_libs)],
     open_issues |-> SortedDict(acc.open_issues_by_repo),
     pull_requests |-> SortedDict(acc.open_prs_by_repo),
     repo_infrastructure_errors |-> SortedDict(acc.repos_by_error)]

NoAnswers == [check_releases |-> "no", issues |-> [ok |-> FALSE, json |-> <<>>],
              pulls |-> [ok |-> FALSE, json |-> <<>>], at |-> 0, errors |-> <<>>]

AggOnly == UNCHANGED <<clientVars, publishVars, contribVars>>

CurrentRepo == Repo(repos[idx])

\* lines 241-244: an excluded repository is skipped
SkipRepo ==
    /\ apc = "for"
    /\ idx <= Len(repos)
    /\ Skipped(repos[idx])
    /\ idx' = idx + 1
    /\ UNCHANGED <<repos, apc, new_libs, updated_libs, open_issues_by_repo,
                   open_prs_by_repo, contributors, reviewers, merged_pr_count_total,
                   repos_by_error, output_file_data, world, oplog, build_json, run_time>>
    /\ AggOnly

\* lines 245-252: the new/updated classification
CheckReleases ==
    /\ apc = "for"
    /\ idx <= Len(repos)
    /\ ~Skipped(repos[idx])
    /\ \E check_releases \in ReleaseChecks :
          /\ SetAcc(AfterReleaseCheck(Acc, CurrentRepo, check_releases))
          /\ world' = (repos[idx] :> [NoAnswers EXCEPT !.check_releases = check_releases])
                          @@ world
    /\ oplog' = Append(oplog, <<"is_new_or_updated", repos[idx]>>)
    /\ apc' = "issues"
    /\ UNCHANGED <<repos, idx, output_file_data, build_json, run_time>>
    /\ AggOnly

\* lines 254-259: the open issues and pull requests; unpacking what the query
\* returned raises unless it is a pair
OpenIssues ==
    /\ apc = "issues"
    /\ \E result \in IssueResponses(CurrentRepo) :
          LET ret == get_open_issues_and_prs(result)
          IN /\ world' = [world EXCEPT ![repos[idx]].issues = result]
             /\ IF Len(ret) = 2
                THEN /\ SetAcc(AfterIssues(Acc, CurrentRepo, ret))
                     /\ apc' = "contributors"
                ELSE /\ SetAcc(Acc)
                     /\ apc' = "raised"
    /\ oplog' = Append(oplog, <<"GET issues", repos[idx]>>)
    /\ UNCHANGED <<repos, idx, output_file_data, build_json, run_time>>
    /\ AggOnly

\* lines 261-267: the contributors and reviewers of the last week; the clock has
\* moved on since it was last read, and get_contributors reads it again
Contributors ==
    /\ apc = "contributors"
    /\ \E d \in Elapsed : now' = now + d
    /\ \E result \in AggPullsResponses(run_time - tz) :
          LET out == get_contributors(result, now')
          IN /\ world' = [world EXCEPT ![repos[idx]].pulls = result, ![repos[idx]].at = now']
             /\ SetAcc(AfterContributors(Acc, out))
             /\ oplog' = Append(oplog, <<"GET pulls", repos[idx]>>)
                            \o [i \in DOMAIN out.requests |-> <<out.requests[i], repos[idx]>>]
    /\ apc' = "validation"
    /\ UNCHANGED <<repos, idx, output_file_data, build_json, run_time>>
    /\ UNCHANGED <<tz, travis, cpc, response, rate_limit_reset, calls, events, returns>>
    /\ UNCHANGED <<publishVars, contribVars>>

\* lines 269-286: the validators, and the ledger of their errors
Validation ==
    /\ apc = "validation"
    /\ \E errors \in ValidationResults :
          /\ world' = [world EXCEPT ![repos[idx]].errors = errors]
          /\ SetAcc(AfterValidation(Acc, CurrentRepo, errors))
          /\ output_file_data' = Flushed(Buffered(output_file_data, errors), errors)
    /\ oplog' = Append(oplog, <<"run_repo_validation", repos[idx]>>)
    /\ idx' = idx + 1
    /\ apc' = "for"
    /\ UNCHANGED <<repos, build_json, run_time>>
    /\ AggOnly

\* lines 288-320: the loop is over; the mappings are sorted and the document
\* assembled, the logins in the order the sets yield them
Serialize ==
    /\ apc = "for"
    /\ idx > Len(repos)
    /\ \E contribs \in Orderings(Range(contributors)), revs \in Orderings(Range(reviewers)) :
          build_json' = Document(Acc, contribs, revs, run_time)
    /\ apc' = "done"
    /\ UNCHANGED <<repos, idx, new_libs, updated_libs, open_issues_by_repo,
                   open_prs_by_repo, contributors, reviewers, merged_pr_count_total,
                   repos_by_error, output_file_data, world, oplog, run_time>>
    /\ AggOnly

InitAgg ==
    /\ ClientQuiet /\ PublishIdle /\ ContribIdle
    /\ tz \in AggZones
    /\ repos \in RepoLists
    /\ idx = 1
    /\ apc = "for"
    /\ new_libs = <<>> /\ updated_libs = <<>>
    /\ open_issues_by_repo = <<>> /\ open_prs_by_repo = <<>>
    /\ contributors = <<>> /\ reviewers = <<>> /\ merged_pr_count_total = 0
    /\ repos_by_error = <<>> /\ output_file_data = <<>>
    /\ world = <<>> /\ oplog = <<>> /\ build_json = Null
    /\ run_time = datetime_now(now)

NextAgg ==
    \/ SkipRepo
    \/ CheckReleases
    \/ OpenIssues
    \/ Contributors
    \/ Validation
    \/ Serialize

\* One pass of the for loop's body, or a part of it
LoopStep ==
    \/ SkipRepo
    \/ CheckReleases
    \/ OpenIssues
    \/ Contributors
    \/ Validation

\* The script is one thread that runs on: the loop executes its next statement
Spec == InitAgg /\ [][NextAgg]_vars /\ WF_vars(LoopStep)

\* The loop body on one repository, given what the collaborators answer for it
LoopBody(acc, name, answers, t) ==
    LET repo == Repo(name)
        a1 == AfterReleaseCheck(acc, repo, answers.check_releases)
        a2 == AfterIssues(a1, repo, get_open_issues_and_prs(answers.issues))
        a3 == AfterContributors(a2, get_contributors(answers.pulls, t))
    IN AfterValidation(a3, repo, answers.errors)

RECURSIVE RunLoop(_, _, _, _)
\* lines 241-286 on a repository list, given every collaborator's answers and
\* the clock readings of the successive get_contributors calls
RunLoop(acc, list, answers, ticks) ==
    IF list = <<>> THEN acc
    ELSE IF Skipped(Head(list)) THEN RunLoop(acc, Tail(list), answers, ticks)
    ELSE RunLoop(LoopBody(acc, Head(list), answers[Head(list)], Head(ticks)),
                 Tail(list), answers, Tail(ticks))

(***************************************************************************)
(* The client's contract                                                   *)
(***************************************************************************)

\* C1: whenever the response of a GET carries a remaining-calls value <= 1,
\* get() does not return before the clock has reached the reset time of the
\* companion header, so every request of any verb issued after that GET is
\* issued at or after that reset time (and none is issued at all after a GET
\* whose response lacks the reset header, since get() raises).
C1_BackPressure ==
    /\ \A k \in DOMAIN returns :
          Limited(returns[k].headers) =>
              /\ returns[k].headers.has_reset
              /\ returns[k].at >= returns[k].headers.reset
    /\ \A i, j \in DOMAIN events :
          (i < j /\ events[i].verb = "GET" /\ Limited(events[i].headers)) =>
              /\ events[i].headers.has_reset
              /\ events[j].at >= events[i].headers.reset

\* A GET met the limit with a reset time ahead, and another request followed it.
C1_Witness ==
    \E i, j \in DOMAIN events :
        /\ i < j
        /\ events[i].verb = "GET" /\ Limited(events[i].headers)
        /\ events[i].headers.has_reset
        /\ events[i].headers.reset >= events[i].at + SleepTravisSeconds
        /\ events[j].verb \in {"GET", "POST"}

\* C10: a GET that entered the rate-limit wait leaves it: it eventually returns
\* the response it received, and while it waits it neither raises nor issues a
\* request, in either sleep mode and for every reset time.
C10_PauseResumes ==
    /\ [][(cpc \in {"while", "body"}) =>
            (events' = events /\ response' = response /\ cpc' # "raised")]_vars
    /\ (cpc = "while") ~>
            (cpc = "idle" /\ returns # <<>> /\ returns[Len(returns)].headers = response)

\* Outside Travis, get() returned a response whose reset time was a day or more
\* after the request.
C10_Witness ==
    /\ ~travis
    /\ cpc = "idle"
    /\ \E i \in DOMAIN events, k \in DOMAIN returns :
          /\ events[i].headers = returns[k].headers
          /\ Limited(returns[k].headers)
          /\ returns[k].headers.reset >= events[i].at + SecondsPerDay
          /\ returns[k].at >= returns[k].headers.reset

(***************************************************************************)
(* The publish protocol                                                    *)
(***************************************************************************)
Finished == ppc \in {"done", "failed"}

Issued(step) == \E i \in DOMAIN requests : requests[i].step = step

Tolerated(r) == r.step = 3 /\ ~r.ok /\ r.message = "Reference already exists"

\* C2 as stated: after a branch creation refused with 'Reference already
\* exists' the publish issues the content-update PUT and then the pull-request
\* POST; after any other refusal it raises and issues neither.
C2_AsStated ==
    Finished =>
        \A i \in DOMAIN requests :
            (requests[i].step = 3 /\ ~requests[i].ok) =>
                IF Tolerated(requests[i])
                THEN Issued(4) /\ Issued(5)
                ELSE fatal # "none" /\ ~Issued(4) /\ ~Issued(5)

\* C2, amended: after a branch creation refused with 'Reference already exists'
\* the publish issues the content-update PUT next, and the pull-request POST
\* after it exactly when the PUT returned ok; after any other refusal it raises
\* and issues neither.
C2_BranchStep ==
    Finished =>
        \A i \in DOMAIN requests :
            (requests[i].step = 3 /\ ~requests[i].ok) =>
                IF Tolerated(requests[i])
                THEN /\ i + 1 \in DOMAIN requests
                     /\ requests[i + 1].step = 4 /\ requests[i + 1].verb = "PUT"
                     /\ requests[i + 1].ok <=>
                            (/\ i + 2 \in DOMAIN requests
                             /\ requests[i + 2].step = 5 /\ requests[i + 2].verb = "POST")
                ELSE /\ fatal # "none" /\ ppc = "failed"
                     /\ ~Issued(4) /\ ~Issued(5)

\* The branch existed already, and the publish went on to open the pull request.
C2_Witness ==
    /\ ppc = "done"
    /\ \E i \in DOMAIN requests : Tolerated(requests[i])
    /\ Issued(4) /\ Issued(5)

FailureMessage(step) ==
    CASE step = 1 -> "Failed to retrieve master sha"
      [] step = 2 -> "Failed to retrieve libraries.json sha"
      [] step = 4 -> "Failed to update libraries.json"
      [] step = 5 -> "Failed to create pull request"
      [] OTHER -> "Failed to create branch"

StepVerb(step) ==
    CASE step \in {1, 2} -> "GET" [] step = 4 -> "PUT" [] OTHER -> "POST"

\* C3: the requests go out in the order master ref, blob SHA, branch, content,
\* pull request; a non-ok answer to step 1, 2, 4 or 5 ends the publish with the
\* error naming that step and no later request, so no write is sent unless both
\* reads succeeded and no pull request unless the content update did; nothing is
\* sent to undo what was applied.
C3_OrderAndAbort ==
    /\ Len(requests) <= 5
    /\ \A i \in DOMAIN requests :
          /\ requests[i].step = i
          /\ requests[i].verb = StepVerb(i)
          /\ (i \in {1, 2, 4, 5} /\ ~requests[i].ok) =>
                /\ i = Len(requests)
                /\ ppc = "failed"
                /\ fatal = FailureMessage(i)
          /\ requests[i].verb \in {"POST", "PUT"} => requests[1].ok /\ requests[2].ok
          /\ i = 5 => requests[4].ok
    /\ (ppc = "done") => (Len(requests) = 5 /\ fatal = "none")

\* The content update failed after the branch was created: the publish stopped
\* there, the branch left in place.
C3_Witness ==
    /\ ppc = "failed"
    /\ Len(requests) = 4
    /\ requests[3].ok
    /\ ~requests[4].ok

(***************************************************************************)
(* The aggregation loop and the report                                     *)
(***************************************************************************)
Excluded(name) == name \in BUNDLE_IGNORE_LIST \/ name = Circuitpython

\* The repositories the loop has gone through
Processed == SubSeq(repos, 1, idx - 1)

KeptOf(list) == LET Kept(name) == ~Excluded(name) IN SelectSeq(list, Kept)

\* The URL an element of the error ledger names
UrlOf(entry) == IF Len(entry) = 4 THEN entry[1] ELSE entry

LedgerUrls(ledger) ==
    UNION {{UrlOf(ledger[i][2][j]) : j \in DOMAIN ledger[i][2]} : i \in DOMAIN ledger}

NameKeyed(doc) ==
    <<doc.library_updates.new, doc.library_updates.updated, doc.open_issues,
      doc.pull_requests>>

\* The clock readings at which get_contributors was called for the repositories
\* of `list`
TicksOf(list) == [k \in DOMAIN list |-> world[list[k]].at]

RECURSIVE MergedBy(_, _)
\* The pull requests that the closed-pulls answers for the repositories of `list`
\* hold and that are merged in the window of the clock reading at which each
\* repository is queried
MergedBy(list, ticks) ==
    IF list = <<>> THEN 0
    ELSE get_contributors(world[Head(list)].pulls, Head(ticks)).merged_pr_count
            + MergedBy(Tail(list), Tail(ticks))

\* C4: an excluded repository (in BUNDLE_IGNORE_LIST, or named circuitpython) is
\* never a key nor a URL value of the new, updated, open-issues, open-pulls or
\* error mappings, in the loop or in the document; no query or validation is made
\* for it, and the accumulators (contributors, reviewers and merged count among
\* them) are what the other repositories alone give.
C4_Exclusion ==
    /\ \A name \in RepoNames :
          Excluded(name) =>
              /\ \A d \in {new_libs, updated_libs, open_issues_by_repo, open_prs_by_repo} :
                    ~HasKey(d, name)
              /\ \A d \in {new_libs, updated_libs} :
                    \A i \in DOMAIN d : d[i][2] # Repo(name).html_url
              /\ Repo(name).html_url \notin LedgerUrls(repos_by_error)
              /\ \A i \in DOMAIN oplog : oplog[i][2] # name
              /\ name \notin DOMAIN world
              /\ apc = "done" =>
                    /\ \A k \in 1..4 :
                          /\ ~HasKey(NameKeyed(build_json)[k], name)
                          /\ k <= 2 => \A i \in DOMAIN NameKeyed(build_json)[k] :
                                          NameKeyed(build_json)[k][i][2] # Repo(name).html_url
                    /\ Repo(name).html_url
                          \notin LedgerUrls(build_json.repo_infrastructure_errors)
    /\ apc \in {"for", "done"} =>
          LET kept == KeptOf(Processed)
              alone == [i \in DOMAIN kept |->
                           LoopBody(EmptyAcc, kept[i], world[kept[i]], world[kept[i]].at)]
          IN /\ merged_pr_count_total = MergedBy(kept, TicksOf(kept))
             /\ Range(contributors) = UNION {Range(alone[i].contributors) : i \in DOMAIN alone}
             /\ Range(reviewers) = UNION {Range(alone[i].reviewers) : i \in DOMAIN alone}
             /\ Len(contributors) = Len(kept) - Cardinality({i \in DOMAIN alone :
                                                              alone[i].contributors = <<>>})

\* The run is over; circuitpython came first in the list, before a repository
\* that is reported as new, with an error and a contributor.
C4_Witness ==
    /\ apc = "done"
    /\ Len(repos) = 2
    /\ repos[1] = Circuitpython
    /\ build_json.library_updates.new # <<>>
    /\ build_json.repo_infrastructure_errors # <<>>
    /\ contributors # <<>>

Mappings(doc) == NameKeyed(doc) \o <<doc.repo_infrastructure_errors>>

Accumulated ==
    <<new_libs, updated_libs, open_issues_by_repo, open_prs_by_repo, repos_by_error>>

\* C6: each mapping of the document (new, updated, open issues, open pull
\* requests, error ledger) lists its keys in case-insensitive ascending order
\* and holds exactly the key/value pairs the loop accumulated.
C6_SortedKeys ==
    apc = "done" =>
        \A k \in 1..5 :
            LET m == Mappings(build_json)[k]
            IN /\ \A i, j \in DOMAIN m :
                    i < j => ~StrLess(Lower(m[j][1]), Lower(m[i][1]))
               /\ Len(m) = Len(Accumulated[k])
               /\ Range(m) = Range(Accumulated[k])

\* "B" was accumulated before "a" and the document lists "a" first; the ledger
\* has "R" accumulated before "m" and lists "m" first.
C6_Witness ==
    /\ apc = "done"
    /\ Keys(new_libs) = <<<<66>>, <<97>>>>
    /\ Keys(build_json.library_updates.new) = <<<<97>>, <<66>>>>
    /\ Keys(repos_by_error) = <<<<82>>, <<109>>>>
    /\ Keys(build_json.repo_infrastructure_errors) = <<<<109>>, <<82>>>>

\* The error kinds the model's validator reports
ErrorKinds == {<<82>>, <<109>>, <<77>>, ERROR_OUTPUT_HANDLER}

\* The element one signal of a repository should add
Annotated(error, url) ==
    IF error.is_tuple THEN <<url, " (", error.days, " days)">> ELSE url

RECURSIVE SignalsOf(_, _)
\* What the signals of kind `kind` reported for the repositories of `list`
\* should add, in order
SignalsOf(list, kind) ==
    IF list = <<>> THEN <<>>
    ELSE LET errors == world[Head(list)].errors
             OfKind(error) == error.kind = kind
             sel == SelectSeq(errors, OfKind)
         IN [i \in DOMAIN sel |-> Annotated(sel[i], Repo(Head(list)).html_url)]
                \o SignalsOf(Tail(list), kind)

\* C8: each error signal of a repository adds exactly one element to the ledger
\* entry of its kind: the URL with " (N days)" for a pair, the bare URL for a
\* plain kind; so the keys are the kinds reported for some non-excluded
\* repository and each sequence has one element per signal.
C8_ErrorLedger ==
    apc \in {"for", "done"} =>
        \A kind \in ErrorKinds :
            LET expected == SignalsOf(KeptOf(Processed), kind)
            IN /\ HasKey(repos_by_error, kind) <=> expected # <<>>
               /\ HasKey(repos_by_error, kind) => Get(repos_by_error, kind) = expected
               /\ \A key \in Range(Keys(repos_by_error)) : key \in ErrorKinds

\* One repository reported ("m", 5) and another "R": the ledger holds the first
\* with its days and the second bare.
C8_Witness ==
    /\ apc = "done"
    /\ HasKey(repos_by_error, <<109>>) /\ HasKey(repos_by_error, <<82>>)
    /\ \E u \in {Repo(n).html_url : n \in RepoNames} :
          Get(repos_by_error, <<109>>) = <<<<u, " (", 5, " days)">>>>
    /\ \E u \in {Repo(n).html_url : n \in RepoNames} :
          Get(repos_by_error, <<82>>) = <<u>>

\* The orders in which a repository list may be iterated
IterationOrders(list) ==
    {p \in [DOMAIN list -> Range(list)] : \A i, j \in DOMAIN p : i # j => p[i] # p[j]}

Reverse(s) == [i \in DOMAIN s |-> s[Len(s) + 1 - i]]

\* The same answers, the items of every response in the opposite order
ResponsesReversed(answers) ==
    [n \in DOMAIN answers |->
        [answers[n] EXCEPT !.issues.json = Reverse(@), !.pulls.json = Reverse(@)]]

\* The clock readings of the run's successive get_contributors calls
Ticks == TicksOf(KeptOf(repos))

\* The documents a run over `list` gives when the collaborators answer `answers`
\* and the k-th call of get_contributors reads the clock as this run's k-th did
DocumentsOf(list, answers) ==
    UNION {{[doc EXCEPT !.contributors = contribs, !.reviewers = revs] :
                contribs \in Orderings(Range(doc.contributors)),
                revs \in Orderings(Range(doc.reviewers))} :
             doc \in {Document(acc, acc.contributors, acc.reviewers, run_time) :
                        acc \in {RunLoop(EmptyAcc, list, answers, Ticks)}}}

Count(s, x) == Cardinality({i \in DOMAIN s : s[i] = x})

SameBag(s, t) ==
    /\ Len(s) = Len(t)
    /\ \A x \in Range(s) \cup Range(t) : Count(s, x) = Count(t, x)

NoCaseTies(d) == \A i, j \in DOMAIN d : i # j => Lower(d[i][1]) # Lower(d[j][1])

\* Two documents with the same timestamp, the same key/value pairs in the new,
\* updated, open-issues and open-pulls mappings and the same error kinds, each
\* with the same elements; the keys in the same order unless two differ only by
\* case
SameMappings(doc, other) ==
    /\ doc.updated_at = other.updated_at
    /\ \A k \in 1..4 :
          /\ Range(NameKeyed(doc)[k]) = Range(NameKeyed(other)[k])
          /\ NoCaseTies(NameKeyed(doc)[k]) => NameKeyed(doc)[k] = NameKeyed(other)[k]
    /\ LET ledger == doc.repo_infrastructure_errors
           ledger2 == other.repo_infrastructure_errors
       IN /\ Range(Keys(ledger)) = Range(Keys(ledger2))
          /\ NoCaseTies(ledger) => Keys(ledger) = Keys(ledger2)
          /\ \A key \in Range(Keys(ledger)) : SameBag(Get(ledger, key), Get(ledger2, key))

\* Two documents with the same merged count and the same contributors and
\* reviewers
SameActivity(doc, other) ==
    /\ doc.merged_pr_count = other.merged_pr_count
    /\ Range(doc.contributors) = Range(other.contributors)
    /\ Range(doc.reviewers) = Range(other.reviewers)

\* In the order p every repository's closed pull requests fall on the same side
\* of the 7-day boundary as they did in the run
SameWindows(p) ==
    LET kept == KeptOf(p)
    IN \A k \in DOMAIN kept :
          get_contributors(world[kept[k]].pulls, Ticks[k])
             = get_contributors(world[kept[k]].pulls, world[kept[k]].at)

\* Each sequence of `mapping` is the opposite of the one `other` has for the key
Reversed(mapping, other) ==
    /\ Keys(mapping) = Keys(other)
    /\ \A i \in DOMAIN mapping : mapping[i][2] = Reverse(other[i][2])

TopLevelOps == {"is_new_or_updated", "GET issues", "GET pulls", "run_repo_validation"}

RECURSIVE ExpectedOps(_)
ExpectedOps(list) ==
    IF list = <<>> THEN <<>>
    ELSE <<<<"is_new_or_updated", Head(list)>>, <<"GET issues", Head(list)>>,
           <<"GET pulls", Head(list)>>, <<"run_repo_validation", Head(list)>>>>
            \o ExpectedOps(Tail(list))

AllServed ==
    /\ apc # "raised"
    /\ apc \in {"for", "done"} =>
          LET IsTop(op) == op[1] \in TopLevelOps
          IN SelectSeq(oplog, IsTop) = ExpectedOps(KeptOf(Processed))
    /\ apc = "done" => Processed = repos

\* C9: whatever the API answers (ok or not, for the issues list, the closed-pulls
\* list, the pull request detail and the reviews), the loop never raises and
\* reaches the end of the repository list, and
\* every non-excluded repository gets its classification, its issues query, its
\* contributors query and its validation, in list order.
C9_NoAbort == []AllServed /\ <>(apc \in {"for", "done"} /\ idx > Len(repos))

\* The first repository's issues and closed-pulls queries both failed, a later
\* repository's pull request detail failed, and the run went to its end.
C9_Witness ==
    /\ apc = "done"
    /\ Len(repos) >= 2
    /\ ~Excluded(repos[1]) /\ ~Excluded(repos[Len(repos)])
    /\ ~world[repos[1]].issues.ok /\ ~world[repos[1]].pulls.ok
    /\ world[repos[Len(repos)]].pulls.ok
    /\ ~world[repos[Len(repos)]].pulls.json[1].detail.ok
    /\ world[repos[Len(repos)]].issues.ok

(***************************************************************************)
(* get_contributors                                                        *)
(***************************************************************************)
\* merged_at is a UTC reading: the pull request was merged at or after the
\* instant 7 days before the clock's reading (whole seconds plus microseconds)
InWindow(pr) ==
    /\ pr.merged_at.present
    /\ pr.merged_at.value # JsonNull
    /\ \/ pr.merged_at.value[1] > now - 7 * 24 * 60 * 60
       \/ pr.merged_at.value[1] = now - 7 * 24 * 60 * 60 /\ micro = 0

\* C7: a closed pull request of the page gives its author to contributors,
\* counts as merged and has its detail requested exactly when it has a merged_at
\* that is not null and not older than now minus 7 days; its reviews are
\* requested only then; the count is the number of such pull requests.
C7_AsStated ==
    gpc = "returned" =>
        LET page == pulls_result.json
            kept == {i \in DOMAIN page : InWindow(page[i])}
            InWin(pr) == InWindow(pr)
            sel == SelectSeq(page, InWin)
        IN /\ contrib_out.merged_pr_count = Cardinality(kept)
           /\ contrib_out.contributors = [i \in DOMAIN sel |-> sel[i].user]
           /\ \A i \in DOMAIN page :
                 /\ <<"GET", page[i].url>> \in Range(contrib_out.requests) <=> i \in kept
                 /\ <<"GET", page[i].url, "/reviews">> \in Range(contrib_out.requests)
                       <=> (i \in kept /\ page[i].detail.ok)
           /\ kept = {} => contrib_out.reviewers = <<>>
           /\ \A i \in kept : page[i].detail.ok =>
                 page[i].detail.merged_by \in Range(contrib_out.reviewers)

=============================================================================
